---- MODULE Spec2Model ----
(***************************************************************************)
(* Campaign registry and campaign attribution handlers of CRITs            *)
(* (crits/campaigns/handlers.py), as a state machine over the document     *)
(* store.  Each handler is one action: it runs from its first line to its  *)
(* return (or to the exception that leaves it) in one step.                *)
(***************************************************************************)
EXTENDS Integers, Sequences, FiniteSets, TLC

\* ------------------------------------------------------------------ bounds

\* Attribution calls per behaviour; the clock `now` that dates new entries
\* advances once per attribution call and stops at this value.
MaxCalls == 2

\* Registry calls per behaviour (the clock ticks once per call of either kind).
MaxRegCalls == 3

\* ---------------------------------------------------------------- universe

None == "None"

\* The top-level objects present in the document store, all of one kind.
Objects == {"A", "B", "C"}
ObjectType == "Indicator"

\* Object ids a caller or a relationship may carry; "gone" names no document
\* (and the type tag "Bogus", used below, maps to no class).
Oids == Objects \cup {"gone"}

\* Campaign names handed to the attribution handlers ("" is the blank name).
AttrNames == {"Foo", "Bar", ""}

\* (confidence, description, analyst) of an attribution call.
AttrInputs ==
    { [confidence |-> "low",  description |-> "d1", analyst |-> "alice"],
      [confidence |-> "high", description |-> "d2", analyst |-> "bob"] }

\* Dates a caller of campaign_edit may hand in (the clock starts at 1).
EditDates == {0}

\* Objects whose save raises ValidationError during one call: none or one.
BadSets == {{}} \cup {{o} : o \in Objects}

\* Target references a caller may hand in: (ctype, oid), or neither.
TargetRefs ==
    {<<ObjectType, o>> : o \in Oids} \cup {<<"Bogus", "A">>, <<None, None>>}

\* Campaign names handed to the registry handlers.
RegNames == {"Foo", "Bar"}

\* TTP texts handed to the TTP handlers.
TTPTexts == {"t1", "t2"}

\* `aliases` arguments of add_campaign: a comma separated str (given by its
\* pieces between the commas), a list, or neither.
AliasInputs ==
    { [type |-> "str", value |-> <<"x", " y ">>],
      [type |-> "list", value |-> <<"x ", "y">>],
      [type |-> None, value |-> << >>] }

\* `tags` arguments of modify_campaign_aliases.
TagInputs == { << >>, <<"z">> }

\* Related-object arguments of add_campaign: (related_type, related_id).
RelatedRefs == {<<None, None>>, <<ObjectType, "A">>, <<ObjectType, "gone">>}

\* relationship_type arguments of add_campaign.
RelTypeInputs == {None, "Contains"}

VARIABLES
    objs,       \* objs[o]: the stored `campaign` list of top-level object o
    rels,       \* rels[o]: the stored `relationships` list of object o
    campaigns,  \* the Campaign collection, in insertion order
    nextId,     \* the next ObjectId the store hands out
    now,        \* the clock: the date a new EmbeddedCampaign gets
    last,       \* the most recent call: its arguments and what it returned
    procs       \* procs[p]: request p's position in campaign_add / _edit

vars == <<objs, rels, campaigns, nextId, now, last, procs>>

\* ------------------------------------------------------------ the results

\* A handler's returned dict: 'success' and 'message' (None when absent).
Ret(success, message) ==
    [raised |-> None, success |-> success, message |-> message]

\* An exception that leaves the handler instead of a returned dict.
Raise(exc) ==
    [raised |-> exc, success |-> FALSE, message |-> None]

MsgCannotFind == "Cannot find"
MsgNoRef == "Object type and ID, or object instance, must be provided."
MsgInvalid == "Invalid value"
MsgAssigned == "Campaign assigned successfully!"
MsgBlank == "Campaign is invalid"
MsgNoEntry == "Campaign not found on object"

\* ------------------------------------------ the objects' own campaign lists

HasCampaign(list, name) ==
    \E i \in 1..Len(list) : list[i].name = name

FirstIndex(list, name) ==
    CHOOSE i \in 1..Len(list) :
        /\ list[i].name = name
        /\ \A j \in 1..(i - 1) : list[j].name # name

CountCampaign(list, name) ==
    Cardinality({i \in 1..Len(list) : list[i].name = name})

RemoveAt(list, i) ==
    [j \in 1..(Len(list) - 1) |-> IF j < i THEN list[j] ELSE list[j + 1]]

\* obj.add_campaign(campaign_item, update=True): merge by name, else append.
obj_add_campaign(list, item, update) ==
    IF item.name = ""
    THEN [success |-> FALSE, message |-> MsgBlank, campaign |-> list]
    ELSE IF HasCampaign(list, item.name)
    THEN IF update
         THEN LET i == FirstIndex(list, item.name)
              IN [success |-> TRUE, message |-> MsgAssigned,
                  campaign |-> [list EXCEPT
                      ![i].confidence = item.confidence,
                      ![i].description = item.description]]
         ELSE [success |-> TRUE, message |-> MsgAssigned, campaign |-> list]
    ELSE [success |-> TRUE, message |-> MsgAssigned,
          campaign |-> Append(list, item)]

\* obj.edit_campaign(campaign_item): replace confidence, description and
\* date of the entry of that name; no such entry is a failure.
obj_edit_campaign(list, item) ==
    IF HasCampaign(list, item.name)
    THEN LET i == FirstIndex(list, item.name)
         IN [success |-> TRUE, message |-> None,
             campaign |-> [list EXCEPT
                 ![i].confidence = item.confidence,
                 ![i].description = item.description,
                 ![i].date = item.date]]
    ELSE [success |-> FALSE, message |-> MsgNoEntry, campaign |-> list]

\* obj.remove_campaign(name): delete the entry of that name; no such entry
\* is a failure.
obj_remove_campaign(list, name) ==
    IF HasCampaign(list, name)
    THEN [success |-> TRUE, message |-> None,
          campaign |-> RemoveAt(list, FirstIndex(list, name))]
    ELSE [success |-> FALSE, message |-> MsgNoEntry, campaign |-> list]

\* ------------------------------------------------------ object resolution

\* class_from_type(type): the document class of a type tag, or None.
class_from_type(type) ==
    IF type = ObjectType THEN ObjectType ELSE None

\* klass.objects(id=oid).first(): the stored document, or None.
objects_first(klass, oid) ==
    IF klass = ObjectType /\ oid \in Objects THEN oid ELSE None

\* class_from_id(type, oid): the stored document of that type and id, or None.
class_from_id(type, oid) ==
    IF class_from_type(type) = None THEN None
    ELSE objects_first(class_from_type(type), oid)

\* EmbeddedCampaign(name=, confidence=, description=, analyst=[, date=]).
EmbeddedCampaign(name, confidence, description, analyst, date) ==
    [name |-> name, confidence |-> confidence, description |-> description,
     analyst |-> analyst, date |-> date]

\* -------------------------------------------------------------- propagation

\* A plausible slip: the related object gets the entry appended, unmerged.
RECURSIVE campaign_addto_related_append(_, _, _, _)
campaign_addto_related_append(st, relationships, campaign, bad) ==
    IF relationships = << >> THEN st
    ELSE LET r == Head(relationships)
             klass == class_from_type(r.rel_type)
             robj == IF klass = None THEN None
                     ELSE objects_first(klass, r.object_id)
             st2 == IF robj = None \/ robj \in bad THEN st
                    ELSE [st EXCEPT ![robj] = Append(st[robj], campaign)]
         IN campaign_addto_related_append(st2, Tail(relationships),
                                          campaign, bad)

\* A plausible slip: the ValidationError of a related save is not caught in
\* the loop body, so the first failing save ends the walk.
RECURSIVE campaign_addto_related_abort(_, _, _, _)
campaign_addto_related_abort(st, relationships, campaign, bad) ==
    IF relationships = << >> THEN st
    ELSE LET r == Head(relationships)
             klass == class_from_type(r.rel_type)
             robj == IF klass = None THEN None
                     ELSE objects_first(klass, r.object_id)
         IN IF robj # None /\ robj \in bad THEN st
            ELSE campaign_addto_related_abort(
                     IF robj = None THEN st
                     ELSE [st EXCEPT ![robj] =
                              obj_add_campaign(st[robj], campaign, TRUE).campaign],
                     Tail(relationships), campaign, bad)

\* A plausible slip: the walk recurses into each related object's own
\* relationships (two hops).
RECURSIVE campaign_addto_related_hop(_, _, _, _, _)
campaign_addto_related_hop(st, relationships, campaign, bad, depth) ==
    IF relationships = << >> THEN st
    ELSE LET r == Head(relationships)
             klass == class_from_type(r.rel_type)
             robj == IF klass = None THEN None
                     ELSE objects_first(klass, r.object_id)
             st2 == IF robj = None \/ robj \in bad THEN st
                    ELSE [st EXCEPT ![robj] =
                             obj_add_campaign(st[robj], campaign, TRUE).campaign]
             st3 == IF robj = None \/ depth = 0 THEN st2
                    ELSE campaign_addto_related_hop(st2, rels[robj], campaign,
                                                    bad, depth - 1)
         IN campaign_addto_related_hop(st3, Tail(relationships), campaign,
                                       bad, depth)

campaign_addto_related_twohop(st, relationships, campaign, bad) ==
    campaign_addto_related_hop(st, relationships, campaign, bad, 1)

\* campaign_addto_related(crits_object, campaign, analyst): the store after
\* the walk over crits_object.relationships, in list order.
RECURSIVE campaign_addto_related(_, _, _, _)
campaign_addto_related(st, relationships, campaign, bad) ==
    IF relationships = << >> THEN st
    ELSE LET r == Head(relationships)
             klass == class_from_type(r.rel_type)
             robj == IF klass = None THEN None
                     ELSE objects_first(klass, r.object_id)
             st2 == IF robj = None THEN st
                    ELSE LET added == obj_add_campaign(st[robj], campaign, TRUE)
                         IN IF robj \in bad THEN st
                            ELSE [st EXCEPT ![robj] = added.campaign]
         IN campaign_addto_related(st2, Tail(relationships), campaign, bad)

\* ------------------------------------------------------------- attribution

\* A plausible slip: an entry of the same name is replaced by the new
\* EmbeddedCampaign instead of being merged into.
campaign_add_replace(st, ctype, oid, name, confidence, description, related, analyst, update, bad, date) ==
    IF ctype = None \/ oid = None
    THEN [objs |-> st, ret |-> Ret(FALSE, MsgNoRef)]
    ELSE LET obj == class_from_id(ctype, oid) IN
    IF obj = None
    THEN [objs |-> st, ret |-> Ret(FALSE, MsgCannotFind)]
    ELSE LET campaign == EmbeddedCampaign(name, confidence, description,
                                          analyst, date)
             kept == SelectSeq(st[obj], LAMBDA c : c.name # name)
             result == obj_add_campaign(IF update THEN kept ELSE st[obj],
                                        campaign, update)
         IN IF result.success
            THEN LET st2 == IF related
                            THEN campaign_addto_related(st, rels[obj],
                                                        campaign, bad)
                            ELSE st
                 IN IF obj \in bad
                    THEN [objs |-> st2, ret |-> Ret(FALSE, MsgInvalid)]
                    ELSE [objs |-> [st2 EXCEPT ![obj] = result.campaign],
                          ret |-> Ret(TRUE, result.message)]
            ELSE [objs |-> st, ret |-> Ret(FALSE, result.message)]

\* A plausible slip: `update` is not handed on to obj.add_campaign, which
\* then merges by default.
campaign_add_noupdate(st, ctype, oid, name, confidence, description, related, analyst, update, bad, date) ==
    IF ctype = None \/ oid = None
    THEN [objs |-> st, ret |-> Ret(FALSE, MsgNoRef)]
    ELSE LET obj == class_from_id(ctype, oid) IN
    IF obj = None
    THEN [objs |-> st, ret |-> Ret(FALSE, MsgCannotFind)]
    ELSE LET campaign == EmbeddedCampaign(name, confidence, description,
                                          analyst, date)
             result == obj_add_campaign(st[obj], campaign, TRUE)
         IN IF result.success
            THEN LET st2 == IF related
                            THEN campaign_addto_related(st, rels[obj],
                                                        campaign, bad)
                            ELSE st
                 IN IF obj \in bad
                    THEN [objs |-> st2, ret |-> Ret(FALSE, MsgInvalid)]
                    ELSE [objs |-> [st2 EXCEPT ![obj] = result.campaign],
                          ret |-> Ret(TRUE, result.message)]
            ELSE [objs |-> st, ret |-> Ret(FALSE, result.message)]

\* A plausible slip: result['success'] of the embed step is not read; the
\* handler goes on to the walk and the save whatever it was.
campaign_add_unchecked(st, ctype, oid, name, confidence, description, related, analyst, update, bad, date) ==
    IF ctype = None \/ oid = None
    THEN [objs |-> st, ret |-> Ret(FALSE, MsgNoRef)]
    ELSE LET obj == class_from_id(ctype, oid) IN
    IF obj = None
    THEN [objs |-> st, ret |-> Ret(FALSE, MsgCannotFind)]
    ELSE LET campaign == EmbeddedCampaign(name, confidence, description,
                                          analyst, date)
             result == obj_add_campaign(st[obj], campaign, update)
             st2 == IF related
                    THEN campaign_addto_related(st, rels[obj], campaign, bad)
                    ELSE st
         IN IF obj \in bad
            THEN [objs |-> st2, ret |-> Ret(FALSE, MsgInvalid)]
            ELSE [objs |-> [st2 EXCEPT ![obj] = result.campaign],
                  ret |-> Ret(TRUE, result.message)]

\* campaign_add(campaign_name, confidence, description, related, analyst,
\*              ctype, oid, update): the store it leaves and what it returns.
campaign_add(st, ctype, oid, name, confidence, description, related, analyst, update, bad, date) ==
    IF ctype = None \/ oid = None
    THEN [objs |-> st, ret |-> Ret(FALSE, MsgNoRef)]
    ELSE LET obj == class_from_id(ctype, oid) IN
    IF obj = None
    THEN [objs |-> st, ret |-> Ret(FALSE, MsgCannotFind)]
    ELSE LET campaign == EmbeddedCampaign(name, confidence, description,
                                          analyst, date)
             result == obj_add_campaign(st[obj], campaign, update)
         IN IF result.success
            THEN LET st2 == IF related
                            THEN campaign_addto_related(st, rels[obj],
                                                        campaign, bad)
                            ELSE st
                 IN IF obj \in bad
                    THEN [objs |-> st2, ret |-> Ret(FALSE, MsgInvalid)]
                    ELSE [objs |-> [st2 EXCEPT ![obj] = result.campaign],
                          ret |-> Ret(TRUE, result.message)]
            ELSE [objs |-> st, ret |-> Ret(FALSE, result.message)]

\* campaign_edit(ctype, oid, campaign_name, confidence, description, date,
\*               related, analyst).
campaign_edit(st, ctype, oid, name, confidence, description, date, related, analyst, bad) ==
    LET crits_object == class_from_id(ctype, oid) IN
    IF crits_object = None
    THEN [objs |-> st, ret |-> Ret(FALSE, MsgCannotFind)]
    ELSE LET campaign == EmbeddedCampaign(name, confidence, description,
                                          analyst, date)
             edited == obj_edit_campaign(st[crits_object], campaign)
             st2 == IF related
                    THEN campaign_addto_related(st, rels[crits_object],
                                                campaign, bad)
                    ELSE st
         IN IF crits_object \in bad
            THEN [objs |-> st2, ret |-> Ret(FALSE, MsgInvalid)]
            ELSE [objs |-> [st2 EXCEPT ![crits_object] = edited.campaign],
                  ret |-> Ret(TRUE, None)]

\* campaign_remove(ctype, oid, campaign, analyst).
campaign_remove(st, ctype, oid, name, analyst, bad) ==
    LET crits_object == class_from_id(ctype, oid) IN
    IF crits_object = None
    THEN [objs |-> st, ret |-> Ret(FALSE, MsgCannotFind)]
    ELSE LET removed == obj_remove_campaign(st[crits_object], name)
         IN IF crits_object \in bad
            THEN [objs |-> st, ret |-> Ret(FALSE, MsgInvalid)]
            ELSE [objs |-> [st EXCEPT ![crits_object] = removed.campaign],
                  ret |-> Ret(TRUE, None)]

\* ---------------------------------------------------------------- registry

\* Campaign.objects(name=name).first(): index of the first record, or 0.
first_by_name(cs, name) ==
    IF \E i \in 1..Len(cs) : cs[i].name = name
    THEN CHOOSE i \in 1..Len(cs) :
            cs[i].name = name /\ \A j \in 1..(i - 1) : cs[j].name # name
    ELSE 0

\* Campaign.objects(id=cid).first(): index of the first record, or 0.
first_by_id(cs, cid) ==
    IF \E i \in 1..Len(cs) : cs[i].id = cid
    THEN CHOOSE i \in 1..Len(cs) :
            cs[i].id = cid /\ \A j \in 1..(i - 1) : cs[j].id # cid
    ELSE 0

\* str.strip() on the alias pieces in use.
strip(a) ==
    CASE a = " y " -> "y"
      [] a = "x "  -> "x"
      [] OTHER     -> a

\* "Adjust aliases": split and strip a str, strip a list, else [].
final_aliases(aliases) ==
    IF aliases.type = "str" \/ aliases.type = "list"
    THEN [i \in 1..Len(aliases.value) |-> strip(aliases.value[i])]
    ELSE << >>

\* campaign.add_alias(list): append the aliases not yet held.
RECURSIVE add_alias(_, _)
add_alias(held, new) ==
    IF new = << >> THEN held
    ELSE add_alias(IF \E i \in 1..Len(held) : held[i] = Head(new)
                   THEN held ELSE Append(held, Head(new)),
                   Tail(new))

\* RelationshipTypes.inverse(relationship=...).
inverse(relationship) ==
    CASE relationship = "Contains"         -> "Contained Within"
      [] relationship = "Contained Within" -> "Contains"
      [] OTHER                             -> relationship

\* Campaign(name=name) with its description and aliases set.
Campaign(id, name, description, aliases) ==
    [id |-> id, name |-> name, description |-> description,
     aliases |-> add_alias(<< >>, aliases), active |-> "off",
     ttps |-> << >>, relationships |-> << >>]

\* campaign.add_relationship(related_obj, relationship_type, ...).
add_relationship(campaign, related_obj, relationship_type) ==
    [campaign EXCEPT !.relationships =
        Append(@, [rel_type |-> ObjectType, object_id |-> related_obj,
                   relationship |-> relationship_type])]

\* campaign.add_ttp / edit_ttp / remove_ttp on the ordered TTP list.
campaign_add_ttp(ttps, new_ttp) ==
    IF \E i \in 1..Len(ttps) : ttps[i].ttp = new_ttp.ttp
    THEN ttps ELSE Append(ttps, new_ttp)

campaign_edit_ttp(ttps, old_ttp, new_ttp) ==
    [i \in 1..Len(ttps) |->
        IF ttps[i].ttp = old_ttp THEN [ttps[i] EXCEPT !.ttp = new_ttp]
        ELSE ttps[i]]

campaign_remove_ttp(ttps, ttp) ==
    SelectSeq(ttps, LAMBDA t : t.ttp # ttp)

\* A plausible slip: no check that the name is taken.
add_campaign_nocheck(cs, os, id, name, description, aliases, analyst, related_type, related_id, relationship_type, failAt) ==
    IF failAt = 1
    THEN [campaigns |-> cs, objs |-> os, ret |-> Raise("ValidationError")]
    ELSE [campaigns |-> Append(cs, Campaign(id, name, description,
                                            final_aliases(aliases))),
          objs |-> os,
          ret |-> Ret(TRUE, "Campaign created successfully!")]

\* add_campaign(name, description, aliases, analyst, bucket_list, ticket,
\*              related_id, related_type, relationship_type): the store it
\* leaves and what it returns.  failAt numbers the save that raises
\* ValidationError: 1, 2 and 3 are those of lines 349, 357 and 361; 0 none.
add_campaign(cs, os, id, name, description, aliases, analyst, related_type, related_id, relationship_type, failAt) ==
    IF first_by_name(cs, name) # 0
    THEN [campaigns |-> cs, objs |-> os,
          ret |-> Ret(FALSE, "Campaign already exists.")]
    ELSE LET campaign == Campaign(id, name, description,
                                  final_aliases(aliases))
             related_obj == IF related_id # None /\ related_type # None
                            THEN class_from_id(related_type, related_id)
                            ELSE None
             linked == add_relationship(campaign, related_obj,
                                        inverse(relationship_type))
         IN IF related_id # None /\ related_type # None /\ related_obj = None
            THEN [campaigns |-> cs, objs |-> os, ret |-> Raise("NameError")]
            ELSE IF failAt = 1
            THEN [campaigns |-> cs, objs |-> os,
                  ret |-> Raise("ValidationError")]
            ELSE IF related_obj # None /\ relationship_type # None
            THEN IF failAt = 2
                 THEN [campaigns |-> Append(cs, campaign), objs |-> os,
                       ret |-> Raise("ValidationError")]
                 ELSE IF failAt = 3
                 THEN [campaigns |-> Append(cs, linked), objs |-> os,
                       ret |-> Ret(FALSE, MsgInvalid)]
                 ELSE [campaigns |-> Append(cs, linked), objs |-> os,
                       ret |-> Ret(TRUE, "Campaign created successfully!")]
            ELSE IF failAt = 3
                 THEN [campaigns |-> Append(cs, campaign), objs |-> os,
                       ret |-> Ret(FALSE, MsgInvalid)]
                 ELSE [campaigns |-> Append(cs, campaign), objs |-> os,
                       ret |-> Ret(TRUE, "Campaign created successfully!")]

\* A plausible slip: the delete also strips the attributions of that name
\* from every top-level object.
remove_campaign_cascade(cs, os, name) ==
    IF first_by_name(cs, name) # 0
    THEN [campaigns |-> RemoveAt(cs, first_by_name(cs, name)),
          objs |-> [o \in DOMAIN os |->
                       SelectSeq(os[o], LAMBDA c : c.name # name)],
          ret |-> Ret(TRUE, None)]
    ELSE [campaigns |-> cs, objs |-> os,
          ret |-> Ret(FALSE, "Campaign not found.")]

\* remove_campaign(name, analyst).
remove_campaign(cs, os, name) ==
    IF first_by_name(cs, name) # 0
    THEN [campaigns |-> RemoveAt(cs, first_by_name(cs, name)), objs |-> os,
          ret |-> Ret(TRUE, None)]
    ELSE [campaigns |-> cs, objs |-> os,
          ret |-> Ret(FALSE, "Campaign not found.")]

\* The shape add_ttp, edit_ttp, remove_ttp, modify_campaign_aliases,
\* activate_campaign and deactivate_campaign share: look the Campaign up,
\* change it, save inside try; `changed` is the record after the change, i
\* its index (0: not found), missing the message of the not-found return.
change_and_save(cs, i, changed, fail, missing) ==
    IF i = 0 THEN [campaigns |-> cs, ret |-> Ret(FALSE, missing)]
    ELSE IF fail THEN [campaigns |-> cs, ret |-> Ret(FALSE, MsgInvalid)]
    ELSE [campaigns |-> [cs EXCEPT ![i] = changed], ret |-> Ret(TRUE, None)]

\* add_ttp(cid, ttp, analyst).
add_ttp(cs, cid, ttp, analyst, fail) ==
    LET i == first_by_id(cs, cid) IN
    change_and_save(cs, i,
        IF i = 0 THEN None
        ELSE [cs[i] EXCEPT !.ttps =
                 campaign_add_ttp(@, [analyst |-> analyst, ttp |-> ttp])],
        fail, "Could not find Campaign")

\* edit_ttp(cid, old_ttp, new_ttp, analyst).
edit_ttp(cs, cid, old_ttp, new_ttp, analyst, fail) ==
    LET i == first_by_id(cs, cid) IN
    change_and_save(cs, i,
        IF i = 0 THEN None
        ELSE [cs[i] EXCEPT !.ttps = campaign_edit_ttp(@, old_ttp, new_ttp)],
        fail, "Could not find Campaign")

\* remove_ttp(cid, ttp, analyst).
remove_ttp(cs, cid, ttp, analyst, fail) ==
    LET i == first_by_id(cs, cid) IN
    change_and_save(cs, i,
        IF i = 0 THEN None
        ELSE [cs[i] EXCEPT !.ttps = campaign_remove_ttp(@, ttp)],
        fail, "Could not find Campaign")

\* modify_campaign_aliases(name, tags, analyst).
modify_campaign_aliases(cs, name, tags, fail) ==
    LET i == first_by_name(cs, name) IN
    change_and_save(cs, i,
        IF i = 0 THEN None ELSE [cs[i] EXCEPT !.aliases = tags],
        fail, None)

\* activate_campaign(name, analyst).
activate_campaign(cs, name, fail) ==
    LET i == first_by_name(cs, name) IN
    change_and_save(cs, i,
        IF i = 0 THEN None ELSE [cs[i] EXCEPT !.active = "on"],
        fail, None)

\* deactivate_campaign(name, analyst).
deactivate_campaign(cs, name, fail) ==
    LET i == first_by_name(cs, name) IN
    change_and_save(cs, i,
        IF i = 0 THEN None ELSE [cs[i] EXCEPT !.active = "off"],
        fail, None)

\* ------------------------------------------------- the handlers, by step

\* The requests that may run campaign_add / campaign_edit at the same time,
\* each with the (confidence, description, analyst) it hands in.
Procs == {"p1", "p2"}

ProcInput(p) ==
    IF p = "p1"
    THEN [confidence |-> "low",  description |-> "d1", analyst |-> "alice"]
    ELSE [confidence |-> "high", description |-> "d2", analyst |-> "bob"]

\* Targets and campaign names of the requests that run at the same time.
ProcTargets == {"A", "B"}
ProcNames == {"Foo", "Bar"}

\* A request that has not started: no frame of a handler yet.
\* (ret is what the request returned once pc is "done", a blank before that)
Idle ==
    [pc |-> "idle", op |-> None, oid |-> None,
     campaign |-> EmbeddedCampaign(None, None, None, None, 0),
     related |-> FALSE, update |-> FALSE, loaded |-> << >>, obj |-> << >>,
     message |-> None, idx |-> 0, saves |-> << >>, rejected |-> FALSE,
     ret |-> Ret(FALSE, None)]

\* A plausible slip: the target is saved first and the walk over the
\* related objects comes after it.
flow_save_first(stage, success, related) ==
    CASE stage = "embed" -> IF success THEN "save" ELSE "done"
      [] stage = "save"  -> IF success /\ related THEN "walk" ELSE "done"
      [] stage = "walk"  -> "done"

\* Where control goes in campaign_add / campaign_edit after a stage: the
\* embed step (obj.add_campaign / edit_campaign), the walk of
\* campaign_addto_related, the target's save.  `success` is the embed
\* step's result['success'] (campaign_edit does not read it: TRUE).
flow(stage, success, related) ==
    CASE stage = "embed" -> IF ~success THEN "done"
                            ELSE IF related THEN "walk" ELSE "save"
      [] stage = "walk"  -> "save"
      [] stage = "save"  -> "done"

\* One pass of the loop body of campaign_addto_related for relationship r:
\* the store after it; `fail` tells whether robj.save raises.
related_step(st, r, campaign, fail) ==
    LET klass == class_from_type(r.rel_type)
        robj == IF klass = None THEN None
                ELSE objects_first(klass, r.object_id)
    IN IF robj = None \/ fail THEN st
       ELSE [st EXCEPT ![robj] =
                obj_add_campaign(st[robj], campaign, TRUE).campaign]

\* A plausible slip that is a fix elsewhere: the save compares the stored
\* document with the one the request loaded and refuses when they differ.
save_target_checked(st, oid, loaded, obj, message, fail) ==
    IF fail \/ st[oid] # loaded
    THEN [objs |-> st, ret |-> Ret(FALSE, MsgInvalid)]
    ELSE [objs |-> [st EXCEPT ![oid] = obj], ret |-> Ret(TRUE, message)]

\* obj.save(username=analyst) inside try and the return that follows it:
\* the in-memory document replaces the stored one, whatever is stored.
save_target(st, oid, loaded, obj, message, fail) ==
    IF fail
    THEN [objs |-> st, ret |-> Ret(FALSE, MsgInvalid)]
    ELSE [objs |-> [st EXCEPT ![oid] = obj], ret |-> Ret(TRUE, message)]

\* ------------------------------------------------------------ the call log

\* The target's stored campaign list as the call found it (<< >> when the
\* target does not resolve).
Before(ctype, oid) ==
    IF ctype = None \/ oid = None \/ class_from_id(ctype, oid) = None
    THEN << >>
    ELSE objs[class_from_id(ctype, oid)]

Call(op, ctype, oid, name, in, date, related, update, bad, ret) ==
    [op |-> op, ctype |-> ctype, oid |-> oid, name |-> name,
     confidence |-> in.confidence, description |-> in.description,
     analyst |-> in.analyst, date |-> date, related |-> related,
     update |-> update, bad |-> bad, before |-> Before(ctype, oid),
     ret |-> ret]

\* The log of a registry call: `existed` tells whether the Campaign the call
\* names (by name or by id) was in the collection when the call began.
RegCall(op, name, cid, related, fail, existed, ret) ==
    [op |-> op, name |-> name, cid |-> cid, related |-> related,
     fail |-> fail, existed |-> existed, ret |-> ret]

NoInput == [confidence |-> None, description |-> None, analyst |-> None]

\* ------------------------------------------------------------------ actions

\* The relationship lists of the stored objects: A is related to B and C
\* (and carries one edge of an unknown type and one to a deleted document);
\* B and C are each related to A only.
InitRels ==
    [o \in Objects |->
        IF o = "A"
        THEN << [rel_type |-> ObjectType, object_id |-> "B"],
                [rel_type |-> "Bogus", object_id |-> "C"],
                [rel_type |-> ObjectType, object_id |-> "gone"],
                [rel_type |-> ObjectType, object_id |-> "C"] >>
        ELSE << [rel_type |-> ObjectType, object_id |-> "A"] >>]

Init ==
    /\ objs = [o \in Objects |-> << >>]
    /\ rels = InitRels
    /\ campaigns = << >>
    /\ nextId = 1
    /\ now = 1
    /\ last = Call("init", None, None, None, NoInput, None, FALSE, FALSE,
                   {}, Ret(TRUE, None))
    /\ procs = [p \in Procs |-> Idle]

\* The objects a call on target `obj` saves: the target and, when it
\* propagates, the documents its relationships resolve to.
Related(obj) ==
    {objects_first(class_from_type(rels[obj][i].rel_type),
                   rels[obj][i].object_id) : i \in 1..Len(rels[obj])} \ {None}

Saved(ref, related) ==
    IF ref[1] = None \/ class_from_id(ref[1], ref[2]) = None THEN {}
    ELSE {class_from_id(ref[1], ref[2])}
         \cup (IF related THEN Related(class_from_id(ref[1], ref[2])) ELSE {})

\* The saves that may raise ValidationError in one call: none, or those of
\* one object the call saves.
BadSetsFor(ref, related) ==
    {bad \in BadSets : bad \subseteq Saved(ref, related)}

\* The arguments that reach the handler's code for a target reference: a
\* call that returns before reading them is made with one set of them.
NamesFor(ref, names) ==
    IF Saved(ref, FALSE) = {} THEN {"Foo"} ELSE names

InputsFor(ref, name) ==
    IF Saved(ref, FALSE) = {} \/ name = ""
    THEN {CHOOSE in \in AttrInputs : in.confidence = "low"}
    ELSE AttrInputs

FlagsFor(ref, name) ==
    IF Saved(ref, FALSE) = {} THEN {FALSE} ELSE BOOLEAN

CampaignAdd ==
    /\ now <= MaxCalls
    /\ \E ref \in TargetRefs :
       \E name \in NamesFor(ref, AttrNames) :
       \E in \in InputsFor(ref, name), related \in FlagsFor(ref, name),
          update \in FlagsFor(ref, name) :
       \E bad \in BadSetsFor(ref, related) :
        LET out == campaign_add(objs, ref[1], ref[2], name, in.confidence,
                                in.description, related, in.analyst, update,
                                bad, now)
        IN /\ objs' = out.objs
           /\ last' = Call("campaign_add", ref[1], ref[2], name, in, now,
                           related, update, bad, out.ret)
    /\ now' = now + 1
    /\ UNCHANGED <<rels, campaigns, nextId, procs>>

CampaignEdit ==
    /\ now <= MaxCalls
    /\ \E ref \in TargetRefs \ {<<None, None>>} :
       \E name \in NamesFor(ref, AttrNames \ {""}) :
       \E in \in InputsFor(ref, name), date \in EditDates,
          related \in FlagsFor(ref, name) :
       \E bad \in BadSetsFor(ref, related) :
        LET out == campaign_edit(objs, ref[1], ref[2], name, in.confidence,
                                 in.description, date, related, in.analyst,
                                 bad)
        IN /\ objs' = out.objs
           /\ last' = Call("campaign_edit", ref[1], ref[2], name, in, date,
                           related, FALSE, bad, out.ret)
    /\ now' = now + 1
    /\ UNCHANGED <<rels, campaigns, nextId, procs>>

CampaignRemove ==
    /\ now <= MaxCalls
    /\ \E ref \in TargetRefs \ {<<None, None>>} :
       \E name \in NamesFor(ref, AttrNames \ {""}) :
       \E bad \in BadSetsFor(ref, FALSE) :
        LET out == campaign_remove(objs, ref[1], ref[2], name, "alice", bad)
        IN /\ objs' = out.objs
           /\ last' = Call("campaign_remove", ref[1], ref[2], name, NoInput,
                           None, FALSE, FALSE, bad, out.ret)
    /\ now' = now + 1
    /\ UNCHANGED <<rels, campaigns, nextId, procs>>

\* The saves of add_campaign that can be reached and so can raise.
FailAtFor(name, rref, reltype) ==
    IF first_by_name(campaigns, name) # 0 THEN {0}
    ELSE IF rref[1] # None /\ class_from_id(rref[1], rref[2]) = None THEN {0}
    ELSE IF rref[1] # None /\ reltype # None THEN 0..3
    ELSE {0, 1, 3}

AddCampaign ==
    /\ now <= MaxRegCalls
    /\ \E name \in RegNames, aliases \in AliasInputs, rref \in RelatedRefs,
          reltype \in RelTypeInputs :
       \E failAt \in FailAtFor(name, rref, reltype) :
        LET out == add_campaign(campaigns, objs, nextId, name, "d1", aliases,
                                "alice", rref[1], rref[2], reltype, failAt)
        IN /\ campaigns' = out.campaigns
           /\ objs' = out.objs
           /\ nextId' = IF Len(out.campaigns) > Len(campaigns)
                        THEN nextId + 1 ELSE nextId
           /\ last' = RegCall("add_campaign", name, None, rref, failAt,
                              first_by_name(campaigns, name) # 0, out.ret)
    /\ now' = now + 1
    /\ UNCHANGED <<rels, procs>>

RemoveCampaign ==
    /\ now <= MaxRegCalls
    /\ \E name \in RegNames :
        LET out == remove_campaign(campaigns, objs, name)
        IN /\ campaigns' = out.campaigns
           /\ objs' = out.objs
           /\ last' = RegCall("remove_campaign", name, None, None, 0,
                              first_by_name(campaigns, name) # 0, out.ret)
    /\ now' = now + 1
    /\ UNCHANGED <<rels, nextId, procs>>

\* The failures a change-and-save handler can meet: its save is reached
\* only when the Campaign is found.
FailsFor(i) == IF i = 0 THEN {FALSE} ELSE BOOLEAN

AddTtp ==
    /\ now <= MaxRegCalls
    /\ \E cid \in 1..nextId, ttp \in TTPTexts :
       \E fail \in FailsFor(first_by_id(campaigns, cid)) :
        LET out == add_ttp(campaigns, cid, ttp, "alice", fail)
        IN /\ campaigns' = out.campaigns
           /\ last' = RegCall("add_ttp", None, cid, None, fail,
                              first_by_id(campaigns, cid) # 0, out.ret)
    /\ now' = now + 1
    /\ UNCHANGED <<objs, rels, nextId, procs>>

EditTtp ==
    /\ now <= MaxRegCalls
    /\ \E cid \in 1..nextId, old_ttp \in TTPTexts, new_ttp \in TTPTexts :
       \E fail \in FailsFor(first_by_id(campaigns, cid)) :
        LET out == edit_ttp(campaigns, cid, old_ttp, new_ttp, "alice", fail)
        IN /\ campaigns' = out.campaigns
           /\ last' = RegCall("edit_ttp", None, cid, None, fail,
                              first_by_id(campaigns, cid) # 0, out.ret)
    /\ now' = now + 1
    /\ UNCHANGED <<objs, rels, nextId, procs>>

RemoveTtp ==
    /\ now <= MaxRegCalls
    /\ \E cid \in 1..nextId, ttp \in TTPTexts :
       \E fail \in FailsFor(first_by_id(campaigns, cid)) :
        LET out == remove_ttp(campaigns, cid, ttp, "alice", fail)
        IN /\ campaigns' = out.campaigns
           /\ last' = RegCall("remove_ttp", None, cid, None, fail,
                              first_by_id(campaigns, cid) # 0, out.ret)
    /\ now' = now + 1
    /\ UNCHANGED <<objs, rels, nextId, procs>>

ModifyAliases ==
    /\ now <= MaxRegCalls
    /\ \E name \in RegNames, tags \in TagInputs :
       \E fail \in FailsFor(first_by_name(campaigns, name)) :
        LET out == modify_campaign_aliases(campaigns, name, tags, fail)
        IN /\ campaigns' = out.campaigns
           /\ last' = RegCall("modify_campaign_aliases", name, None, None,
                              fail, first_by_name(campaigns, name) # 0,
                              out.ret)
    /\ now' = now + 1
    /\ UNCHANGED <<objs, rels, nextId, procs>>

Activate ==
    /\ now <= MaxRegCalls
    /\ \E name \in RegNames :
       \E fail \in FailsFor(first_by_name(campaigns, name)) :
        LET out == activate_campaign(campaigns, name, fail)
        IN /\ campaigns' = out.campaigns
           /\ last' = RegCall("activate_campaign", name, None, None, fail,
                              first_by_name(campaigns, name) # 0, out.ret)
    /\ now' = now + 1
    /\ UNCHANGED <<objs, rels, nextId, procs>>

Deactivate ==
    /\ now <= MaxRegCalls
    /\ \E name \in RegNames :
       \E fail \in FailsFor(first_by_name(campaigns, name)) :
        LET out == deactivate_campaign(campaigns, name, fail)
        IN /\ campaigns' = out.campaigns
           /\ last' = RegCall("deactivate_campaign", name, None, None, fail,
                              first_by_name(campaigns, name) # 0, out.ret)
    /\ now' = now + 1
    /\ UNCHANGED <<objs, rels, nextId, procs>>

\* The attribution handlers over a store of top-level objects.
Next ==
    \/ CampaignAdd
    \/ CampaignEdit
    \/ CampaignRemove

Spec == Init /\ [][Next]_vars

\* A store Spec reaches at date 0's call campaign_add("Foo", "low", "d1",
\* related=True, "alice", "Indicator", "A") in which the save of C raised:
\* A and B hold an attribution of "Foo", C holds none.
Attributed ==
    LET foo == EmbeddedCampaign("Foo", "low", "d1", "alice", 0)
    IN [o \in Objects |-> IF o = "C" THEN << >> ELSE <<foo>>]

InitRegistry ==
    /\ objs = Attributed
    /\ rels = InitRels
    /\ campaigns = << >>
    /\ nextId = 1
    /\ now = 1
    /\ last = RegCall("init", None, None, None, 0, FALSE, Ret(TRUE, None))
    /\ procs = [p \in Procs |-> Idle]

\* The registry handlers over the Campaign collection.
NextRegistry ==
    \/ AddCampaign
    \/ RemoveCampaign
    \/ AddTtp
    \/ EditTtp
    \/ RemoveTtp
    \/ ModifyAliases
    \/ Activate
    \/ Deactivate

SpecRegistry == InitRegistry /\ [][NextRegistry]_vars

\* Request p enters campaign_add or campaign_edit: the target is loaded,
\* the EmbeddedCampaign built and the embed step run on the loaded document.
Begin(p) ==
    /\ procs[p].pc = "idle"
    /\ \E op \in {"campaign_add", "campaign_edit"}, oid \in ProcTargets,
          name \in ProcNames, related \in BOOLEAN :
       \E update \in (IF op = "campaign_add" THEN BOOLEAN ELSE {FALSE}),
          date \in (IF op = "campaign_add" THEN {now} ELSE EditDates) :
        LET in == ProcInput(p)
            campaign == EmbeddedCampaign(name, in.confidence, in.description,
                                         in.analyst, date)
            result == IF op = "campaign_add"
                      THEN obj_add_campaign(objs[oid], campaign, update)
                      ELSE obj_edit_campaign(objs[oid], campaign)
            success == op = "campaign_edit" \/ result.success
            to == flow("embed", success, related)
        IN procs' = [procs EXCEPT ![p] =
              [Idle EXCEPT !.pc = to, !.op = op, !.oid = oid,
                           !.campaign = campaign, !.related = related,
                           !.update = update, !.loaded = objs[oid],
                           !.obj = result.campaign,
                           !.message = IF op = "campaign_add"
                                       THEN result.message ELSE None,
                           !.idx = 1,
                           !.ret = IF to = "done"
                                   THEN Ret(FALSE, result.message)
                                   ELSE Ret(FALSE, None)]]
    /\ now' = now + 1
    /\ UNCHANGED <<objs, rels, campaigns, nextId, last>>

\* Request p runs the loop body of campaign_addto_related for the next
\* relationship of its target; after the last one it leaves the walk.
Walk(p) ==
    /\ procs[p].pc = "walk"
    /\ LET me == procs[p]
           list == rels[me.oid]
           to == IF me.idx >= Len(list)
                 THEN flow("walk", TRUE, me.related) ELSE "walk"
       IN IF me.idx > Len(list)
          THEN /\ procs' = [procs EXCEPT ![p].pc = to]
               /\ objs' = objs
          ELSE LET r == list[me.idx]
                   robj == objects_first(class_from_type(r.rel_type),
                                         r.object_id)
               IN \E fail \in (IF robj = None THEN {FALSE} ELSE BOOLEAN) :
                   /\ objs' = related_step(objs, r, me.campaign, fail)
                   /\ procs' = [procs EXCEPT
                        ![p].pc = to,
                        ![p].idx = me.idx + 1,
                        ![p].saves = IF robj = None THEN me.saves
                                     ELSE Append(me.saves,
                                            [oid |-> robj, ok |-> ~fail])]
    /\ UNCHANGED <<rels, campaigns, nextId, now, last>>

\* Request p saves its target and returns.
Save(p) ==
    /\ procs[p].pc = "save"
    /\ \E fail \in BOOLEAN :
        LET me == procs[p]
            out == save_target(objs, me.oid, me.loaded, me.obj, me.message,
                               fail)
        IN /\ objs' = out.objs
           /\ procs' = [procs EXCEPT
                ![p].pc = flow("save", out.ret.success, me.related),
                ![p].rejected = fail,
                ![p].ret = out.ret,
                ![p].saves = Append(me.saves, [oid |-> me.oid,
                                               ok |-> out.ret.success])]
    /\ UNCHANGED <<rels, campaigns, nextId, now, last>>

\* Two requests in campaign_add / campaign_edit at the same time, their
\* loads, related saves and target saves interleaved.
NextConcurrent ==
    \E p \in Procs :
        \/ Begin(p)
        \/ Walk(p)
        \/ Save(p)

SpecConcurrent == Init /\ [][NextConcurrent]_vars

\* ------------------------------------------------------------------ claims

\* The document the most recent attribution call resolved, or None.
Target ==
    IF last.ctype = None \/ last.oid = None THEN None
    ELSE class_from_id(last.ctype, last.oid)

IsAttr(op) == last.op = op /\ Target # None

EntryOf(list, name) == list[FirstIndex(list, name)]

\* C1: in every reachable state each top-level object holds at most one
\* embedded attribution entry per campaign name, the target of a call and
\* the related objects reached by propagation alike.
C1_OneEntryPerName ==
    \A o \in Objects : \A i, j \in 1..Len(objs[o]) :
        objs[o][i].name = objs[o][j].name => i = j

\* C1's case: a propagating campaign_add merged into a target that held the
\* name and reached a related object that held it from an earlier call.
C1_Witness ==
    /\ IsAttr("campaign_add") /\ last.related /\ last.ret.success
    /\ HasCampaign(last.before, last.name)
    /\ \E r \in Related(Target) :
        /\ HasCampaign(objs[r], last.name)
        /\ EntryOf(objs[r], last.name).date # last.date
        /\ EntryOf(objs[r], last.name).confidence = last.confidence

\* C2: campaign_add with update=True on a target that already holds the
\* name leaves exactly one entry of that name, with the held entry's analyst
\* and date and, once the call reports success, with the call's confidence
\* and description.
C2_MergeKeepsAnalystDate ==
    (IsAttr("campaign_add") /\ last.update
        /\ HasCampaign(last.before, last.name))
    => /\ CountCampaign(objs[Target], last.name) = 1
       /\ LET e == EntryOf(objs[Target], last.name)
              old == EntryOf(last.before, last.name)
          IN /\ e.analyst = old.analyst
             /\ e.date = old.date
             /\ last.ret.success
                  => /\ e.confidence = last.confidence
                     /\ e.description = last.description

\* C2's case: the second attribution of a name, by another analyst at a
\* later date with another confidence and description, has merged.
C2_Witness ==
    /\ IsAttr("campaign_add") /\ last.update /\ last.ret.success
    /\ HasCampaign(last.before, last.name)
    /\ LET old == EntryOf(last.before, last.name)
       IN /\ old.analyst # last.analyst
          /\ old.date # last.date
          /\ old.confidence # last.confidence
          /\ old.description # last.description
          /\ EntryOf(objs[Target], last.name).confidence = last.confidence

\* C3 as stated: campaign_add with update=False on a target that already
\* holds the name leaves the target's entries unchanged and reports success.
C3_NoMergeUnchangedAndSuccess ==
    (IsAttr("campaign_add") /\ ~last.update
        /\ HasCampaign(last.before, last.name))
    => /\ objs[Target] = last.before
       /\ last.ret.success

\* C3 as amended: campaign_add with update=False on a target that already
\* holds the name leaves the target's entries unchanged; it reports success
\* when the target's save passes validation and the failure "Invalid value"
\* when that save raises ValidationError.
C3_NoMergeUnchanged ==
    (IsAttr("campaign_add") /\ ~last.update
        /\ HasCampaign(last.before, last.name))
    => /\ objs[Target] = last.before
       /\ (Target \notin last.bad => last.ret = Ret(TRUE, MsgAssigned))
       /\ (Target \in last.bad => last.ret = Ret(FALSE, MsgInvalid))

\* C3's case: an update=False call with another confidence, description and
\* analyst met an entry of the name, left it alone and reported success.
C3_Witness ==
    /\ IsAttr("campaign_add") /\ ~last.update /\ last.ret.success
    /\ HasCampaign(last.before, last.name)
    /\ EntryOf(objs[Target], last.name).confidence # last.confidence
    /\ EntryOf(objs[Target], last.name).analyst # last.analyst

\* C4: campaign_edit on a target that does not resolve fails with the
\* target-level not-found result, and campaign_edit of a name the resolved
\* target does not hold fails with another, entry-level result; neither
\* reports success.
C4_EditNotFoundDistinct ==
    last.op = "campaign_edit"
    => /\ (Target = None => last.ret = Ret(FALSE, MsgCannotFind))
       /\ (Target # None /\ ~HasCampaign(last.before, last.name)
            => /\ ~last.ret.success
               /\ last.ret.message # MsgCannotFind)

\* C5: campaign_remove fails when the target does not resolve or holds no
\* entry of the name, so a removal right after a successful one fails.
C5_RemoveMissingFails ==
    last.op = "campaign_remove"
    => /\ (Target = None => last.ret = Ret(FALSE, MsgCannotFind))
       /\ (Target # None /\ ~HasCampaign(last.before, last.name)
            => ~last.ret.success)

\* C6: after a propagating campaign_add whose embed step succeeded, every
\* related object whose own save did not raise holds the name, whatever the
\* saves of the other related objects did, and the call reports success
\* exactly when the target's own save did not raise.
C6_PropagationBestEffort ==
    (IsAttr("campaign_add") /\ last.related /\ last.name # "")
    => /\ \A r \in Related(Target) \ last.bad :
            HasCampaign(objs[r], last.name)
       /\ (last.ret.success <=> Target \notin last.bad)
       /\ (Target \in last.bad => last.ret = Ret(FALSE, MsgInvalid))

\* C6's case: A is attributed with propagation, the save of B (first in A's
\* relationships) raised, C (last in them) holds the attribution of this
\* call, B holds none and the call reports success.
C6_Witness ==
    /\ IsAttr("campaign_add") /\ Target = "A" /\ last.related
    /\ last.bad = {"B"} /\ last.ret.success
    /\ ~HasCampaign(objs["B"], last.name)
    /\ HasCampaign(objs["C"], last.name)
    /\ EntryOf(objs["C"], last.name).date = last.date
    /\ HasCampaign(objs["A"], last.name)

\* C7: a campaign_add or campaign_edit step changes the attribution list of
\* the target only and, when `related` is set, of the objects the target's
\* own relationships resolve to; nothing further away changes.
C7_OneHopFrame ==
    [][(last'.op \in {"campaign_add", "campaign_edit"})
        => \A o \in Objects :
            objs'[o] # objs[o]
            => LET t == IF last'.ctype = None THEN None
                        ELSE class_from_id(last'.ctype, last'.oid)
               IN /\ t # None
                  /\ \/ o = t
                     \/ last'.related /\ o \in Related(t)]_vars

\* C7's case: "Foo" went from B to A by propagation at low confidence (and
\* not on to C, two edges away); B was then re-attributed high with
\* update=True and related=False: B is high, A is still low.
C7_Witness ==
    /\ IsAttr("campaign_add") /\ Target = "B" /\ last.name = "Foo"
    /\ ~last.related /\ last.update /\ last.ret.success
    /\ last.confidence = "high"
    /\ HasCampaign(last.before, "Foo")
    /\ EntryOf(last.before, "Foo").confidence = "low"
    /\ EntryOf(objs["B"], "Foo").confidence = "high"
    /\ HasCampaign(objs["A"], "Foo")
    /\ EntryOf(objs["A"], "Foo").confidence = "low"
    /\ EntryOf(objs["A"], "Foo").date = EntryOf(objs["B"], "Foo").date
    /\ ~HasCampaign(objs["C"], "Foo")

UniqueNames(cs) ==
    \A i, j \in 1..Len(cs) : cs[i].name = cs[j].name => i = j

\* C8: add_campaign with a name a Campaign already has returns "Campaign
\* already exists." and leaves the Campaign collection and the rest of the
\* store as they were; no step leaves two Campaigns of one name.
C8_CreateExistingFails ==
    [][/\ (last'.op = "add_campaign" /\ last'.existed)
            => /\ last'.ret = Ret(FALSE, "Campaign already exists.")
               /\ campaigns' = campaigns
               /\ objs' = objs
               /\ rels' = rels
       /\ UniqueNames(campaigns')]_vars

\* C8's case: add_campaign was called with the name of a stored Campaign.
C8_Witness ==
    /\ last.op = "add_campaign" /\ last.existed
    /\ first_by_name(campaigns, last.name) # 0
    /\ ~last.ret.success

\* C9: every call ends by returning a dict with a success flag; no
\* exception leaves a handler.
C9_NoUnhandledFault ==
    last.ret.raised = None

\* C10: remove_campaign of a name no Campaign has returns "Campaign not
\* found." and changes nothing; otherwise it deletes that Campaign's record
\* and only that; either way every object's attribution list is unchanged.
C10_RemoveLeavesAttributions ==
    [][(last'.op = "remove_campaign")
        => /\ objs' = objs
           /\ rels' = rels
           /\ IF last'.existed
              THEN /\ last'.ret = Ret(TRUE, None)
                   /\ campaigns' = RemoveAt(campaigns,
                                       first_by_name(campaigns, last'.name))
                   /\ first_by_name(campaigns', last'.name) = 0
              ELSE /\ last'.ret = Ret(FALSE, "Campaign not found.")
                   /\ campaigns' = campaigns]_vars

\* C10's case: a Campaign was deleted while objects hold attributions that
\* name it; they still do.
C10_Witness ==
    /\ last.op = "remove_campaign" /\ last.existed /\ last.ret.success
    /\ first_by_name(campaigns, last.name) = 0
    /\ \E o \in Objects : HasCampaign(objs[o], last.name)

\* C11: a successful target save stores the request's in-memory document,
\* built from what the request loaded, over whatever is stored by then, and
\* it fails only when validation rejects it: with two requests on one
\* target the later save wins and both report success.
C11_LastWriteWins ==
    [][\A p \in Procs :
        (procs[p].pc = "save" /\ procs'[p].pc # "save")
        => IF procs'[p].rejected
           THEN /\ objs' = objs
                /\ procs'[p].ret = Ret(FALSE, MsgInvalid)
           ELSE /\ objs' = [objs EXCEPT ![procs[p].oid] = procs[p].obj]
                /\ procs'[p].ret.success]_vars

\* C11's case: two campaign_add requests without propagation attributed
\* two campaign names to one target, both returned success, and the stored
\* target holds the later saver's document only: the other name is lost.
C11_Witness ==
    \E p, q \in Procs :
        /\ p # q
        /\ procs[p].pc = "done" /\ procs[q].pc = "done"
        /\ procs[p].op = "campaign_add" /\ procs[q].op = "campaign_add"
        /\ ~procs[p].related /\ ~procs[q].related
        /\ procs[p].oid = procs[q].oid
        /\ procs[p].ret.success /\ procs[q].ret.success
        /\ procs[p].campaign.name # procs[q].campaign.name
        /\ objs[procs[q].oid] = procs[q].obj
        /\ ~HasCampaign(objs[procs[p].oid], procs[p].campaign.name)

\* C12: a propagating campaign_add leaves on every related object whose
\* save passed what the target's own merge policy (the call's `update`)
\* would leave there; with update=False an entry a related object already
\* holds is unchanged.
C12_PropagationSamePolicy ==
    [][(last'.op = "campaign_add" /\ last'.related /\ last'.ret.success)
        => LET t == class_from_id(last'.ctype, last'.oid)
               campaign == EmbeddedCampaign(last'.name, last'.confidence,
                               last'.description, last'.analyst, last'.date)
           IN \A r \in Related(t) \ last'.bad :
                objs'[r] = obj_add_campaign(objs[r], campaign,
                                            last'.update).campaign]_vars

RECURSIVE ResolvedSeq(_)
ResolvedSeq(relationships) ==
    IF relationships = << >> THEN << >>
    ELSE LET r == Head(relationships)
             robj == objects_first(class_from_type(r.rel_type), r.object_id)
         IN (IF robj = None THEN << >> ELSE <<robj>>)
            \o ResolvedSeq(Tail(relationships))

SavedOids(p) == [i \in 1..Len(procs[p].saves) |-> procs[p].saves[i].oid]

IsPrefix(a, b) == Len(a) <= Len(b) /\ a = SubSeq(b, 1, Len(a))

\* The order of a propagating request's saves: the related documents in the
\* order of the target's relationships, then the target, and all of them by
\* the time it returns.
SaveOrder(p) ==
    (procs[p].related /\ procs[p].pc \in {"walk", "save", "done"}
        /\ procs[p].saves # << >>)
    => LET order == ResolvedSeq(rels[procs[p].oid]) \o <<procs[p].oid>>
       IN /\ IsPrefix(SavedOids(p), order)
          /\ procs[p].pc = "save" => Len(SavedOids(p)) = Len(order) - 1
          /\ procs[p].pc = "done" => SavedOids(p) = order

\* C14: a propagating campaign_add / campaign_edit saves the related
\* objects in the order of the target's relationships and the target last;
\* when the target's save then raises, the call returns the failure and the
\* store keeps what the related saves wrote (nothing is rolled back).
C14_RelatedSavedBeforeTarget ==
    [][\A p \in Procs :
        /\ SaveOrder(p)'
        /\ (procs[p].pc = "save" /\ procs'[p].pc # "save"
                /\ procs'[p].rejected)
            => /\ objs' = objs
               /\ procs'[p].pc = "done"
               /\ procs'[p].ret = Ret(FALSE, MsgInvalid)]_vars

\* C14's case: a request attributed A with propagation; B and C were saved
\* with the attribution, then A's save raised: the call failed, B and C hold
\* the name and the stored A does not.
C14_Witness ==
    \E p \in Procs :
        /\ procs[p].pc = "done" /\ procs[p].oid = "A" /\ procs[p].related
        /\ procs[p].ret = Ret(FALSE, MsgInvalid)
        /\ procs[p].saves = << [oid |-> "B", ok |-> TRUE],
                               [oid |-> "C", ok |-> TRUE],
                               [oid |-> "A", ok |-> FALSE] >>
        /\ HasCampaign(objs["B"], procs[p].campaign.name)
        /\ HasCampaign(objs["C"], procs[p].campaign.name)
        /\ ~HasCampaign(objs["A"], procs[p].campaign.name)

====
